---- MODULE Spec2Model ----
(***************************************************************************)
(* A model of libwatchman (src/watchman.c): the query-expression           *)
(* constructors and their compiler to_json, and the public operations      *)
(* that talk to the daemon (watch, watch-del, watch-list, query, close).   *)
(* The operations are modelled twice: as whole calls, each on the reply    *)
(* it finds, and step by step on the stream they share with the daemon.    *)
(***************************************************************************)
EXTENDS Integers, Sequences, FiniteSets, TLC

VARIABLES
    expr,      \* what the last expression constructor returned to its caller
    call,      \* the last constructor call: function, kind and arguments
    json,      \* the last value to_json built for a query
    aborted,   \* the process died (failed assert, fault on a bad pointer)
    conn,      \* the connection: its block, its stream, and what close did to them
    op,        \* the public operation that last returned, and its return value
    error,     \* the caller's watchman_error_t
    wire,      \* what the daemon put on the stream for that operation
    sent,      \* the command line the operation wrote
    list,      \* the watchman_watch_list_t returned, if any
    qres,      \* the watchman_query_result_t returned, if any
    heap,      \* the blocks allocated and freed for a query result
    out,       \* what the caller wrote to the stream and the daemon has not read yet
    inp,       \* what the daemon wrote to the stream and the caller has not read yet
    pc,        \* where the caller stands inside the operation in progress
    log        \* a record of the traffic so far, kept for the properties

exprVars == <<expr, call, json, aborted>>

connVars == <<conn, op, error, wire, sent, list, qres, heap>>

streamVars == <<out, inp, pc, log>>

vars ==
    <<expr, call, json, aborted, conn, op, error, wire, sent, list, qres, heap,
      out, inp, pc, log>>

(***************************************************************************)
(* Bounds of the model.                                                    *)
(***************************************************************************)
MaxClauses == 2    \* largest nr handed to the allof/anyof constructors
MaxNames == 2      \* largest nr handed to the names/inames constructors
MaxNodes == 3      \* largest expression tree built (number of nodes)
MaxFiles == 2      \* longest files array in a query reply
MaxRoots == 2      \* longest roots array in a watch-list reply
MaxCloses == 3     \* calls of watchman_connection_close on one connection
MaxOps == 3        \* operations run one after the other on one stream

(***************************************************************************)
(* enum watchman_expression_type, in the order of the table ty_str.        *)
(***************************************************************************)
WATCHMAN_EXPR_TY_ALLOF == 0
WATCHMAN_EXPR_TY_ANYOF == 1
WATCHMAN_EXPR_TY_NOT == 2
WATCHMAN_EXPR_TY_TRUE == 3
WATCHMAN_EXPR_TY_FALSE == 4
WATCHMAN_EXPR_TY_SINCE == 5
WATCHMAN_EXPR_TY_SUFFIX == 6
WATCHMAN_EXPR_TY_MATCH == 7
WATCHMAN_EXPR_TY_IMATCH == 8
WATCHMAN_EXPR_TY_PCRE == 9
WATCHMAN_EXPR_TY_IPCRE == 10
WATCHMAN_EXPR_TY_NAME == 11
WATCHMAN_EXPR_TY_INAME == 12
WATCHMAN_EXPR_TY_TYPE == 13
WATCHMAN_EXPR_TY_EMPTY == 14
WATCHMAN_EXPR_TY_EXISTS == 15

\* The tables are C arrays, indexed from 0; a TLA+ sequence is indexed from 1.
ty_str ==
    << "allof", "anyof", "not", "true", "false", "since", "suffix", "match",
       "imatch", "pcre", "ipcre", "name", "iname", "type", "empty", "exists" >>

\* Entry 0 of clockspec_str and of basename_str is the C NULL pointer.
clockspec_str == << "(null)", "oclock", "mtime", "ctime" >>

basename_str == << "(null)", "basename", "wholename" >>

\* enum watchman_clockspec and enum watchman_basename: the indices of the tables.
ClockspecVals == 0 .. (Len(clockspec_str) - 1)

BasenameVals == 0 .. (Len(basename_str) - 1)

(***************************************************************************)
(* JSON values (jansson's json_t), as far as the library builds them.      *)
(***************************************************************************)
json_string(s) == [k |-> "string", s |-> s, n |-> 0, a |-> <<>>, o |-> <<>>]

json_integer(n) == [k |-> "integer", s |-> "", n |-> n, a |-> <<>>, o |-> <<>>]

json_true == [k |-> "true", s |-> "", n |-> 0, a |-> <<>>, o |-> <<>>]

json_false == [k |-> "false", s |-> "", n |-> 0, a |-> <<>>, o |-> <<>>]

json_array == [k |-> "array", s |-> "", n |-> 0, a |-> <<>>, o |-> <<>>]

json_array_append_new(arr, v) == [arr EXCEPT !.a = Append(@, v)]

\* An object is its members in order, each a key and a value.
json_object == [k |-> "object", s |-> "", n |-> 0, a |-> <<>>, o |-> <<>>]

json_object_set_new(obj, key, v) ==
    [obj EXCEPT !.o = Append(@, [key |-> key, val |-> v])]

\* The NULL json_t pointer: no value (a failed parse, an absent key).
JsonNull == [k |-> "NULL", s |-> "", n |-> 0, a |-> <<>>, o |-> <<>>]

(***************************************************************************)
(* watchman_expression_t: the type tag and the members of the union e.     *)
(* A pointer to a node is modelled by the node; NullExpr is the NULL       *)
(* pointer and WildExpr a pointer to memory that holds no expression.      *)
(***************************************************************************)
alloc_expr(ty) ==
    [ ty |-> ty,
      union_nr |-> 0, clauses |-> <<>>,                \* e.union_expr
      not_clause |-> <<>>,                             \* e.not_expr.clause
      is_time_t |-> 0, since |-> "", time |-> 0,
      clockspec |-> 0,                                 \* e.since_expr
      suffix |-> "",                                   \* e.suffix_expr
      match |-> "", basename |-> 0,                    \* e.match_expr
      name_nr |-> 0, names |-> <<>>,                   \* e.name_expr
      type |-> "" ]                                    \* e.type_expr

NullExpr == alloc_expr(-1)

WildExpr == alloc_expr(-2)

IsNode(e) == e.ty \in 0 .. (Len(ty_str) - 1)

(***************************************************************************)
(* The expression compiler.                                                *)
(***************************************************************************)
json_string_from_char(c) == json_string(c)

json_string_or_array(nr, items) ==
    IF nr = 1
    THEN json_string(items[1])
    ELSE [json_array EXCEPT !.a = [i \in 1 .. nr |-> json_string(items[i])]]

\* Appends the value and, when a clockspec is set, the clockspec's name, which
\* the code looks up in ty_str.
since_to_json(result, e) ==
    LET r1 == IF e.is_time_t # 0
              THEN json_array_append_new(result, json_integer(e.time))
              ELSE json_array_append_new(result, json_string(e.since))
    IN  IF e.clockspec # 0
        THEN json_array_append_new(r1, json_string(ty_str[e.clockspec + 1]))
        ELSE r1

RECURSIVE to_json(_)
to_json(e) ==
    LET result == json_array_append_new(json_array, json_string(ty_str[e.ty + 1]))
    IN  CASE e.ty \in {WATCHMAN_EXPR_TY_ALLOF, WATCHMAN_EXPR_TY_ANYOF} ->
               [result EXCEPT
                   !.a = @ \o [i \in 1 .. e.union_nr |-> to_json(e.clauses[i])]]
          [] e.ty = WATCHMAN_EXPR_TY_NOT ->
               json_array_append_new(result, to_json(e.not_clause[1]))
          [] e.ty \in {WATCHMAN_EXPR_TY_TRUE, WATCHMAN_EXPR_TY_FALSE,
                       WATCHMAN_EXPR_TY_EMPTY, WATCHMAN_EXPR_TY_EXISTS} ->
               result
          [] e.ty = WATCHMAN_EXPR_TY_SINCE ->
               since_to_json(result, e)
          [] e.ty = WATCHMAN_EXPR_TY_SUFFIX ->
               json_array_append_new(result, json_string(e.suffix))
          [] e.ty \in {WATCHMAN_EXPR_TY_MATCH, WATCHMAN_EXPR_TY_IMATCH,
                       WATCHMAN_EXPR_TY_PCRE, WATCHMAN_EXPR_TY_IPCRE} ->
               LET r1 == json_array_append_new(result, json_string(e.match))
               IN  IF e.basename # 0
                   THEN json_array_append_new(
                            r1, json_string(basename_str[e.basename + 1]))
                   ELSE r1
          [] e.ty \in {WATCHMAN_EXPR_TY_NAME, WATCHMAN_EXPR_TY_INAME} ->
               \* the scope is read through e.match_expr, not e.name_expr
               LET r1 == json_array_append_new(
                             result, json_string_or_array(e.name_nr, e.names))
               IN  IF e.basename # 0
                   THEN json_array_append_new(
                            r1, json_string(basename_str[e.basename + 1]))
                   ELSE r1
          [] e.ty = WATCHMAN_EXPR_TY_TYPE ->
               json_array_append_new(result, json_string_from_char(e.type))

(***************************************************************************)
(* The state of the protocol side.                                         *)
(***************************************************************************)
\* A NULL char pointer; printed with %s it reads "(null)".
NullStr == "(null)"

\* watchman_sock_connect: a block holding an open stream. The counters record
\* what watchman_connection_close has done to the block and the stream.
NewConn ==
    [alive |-> TRUE, fp |-> "open", closes |-> 0, fcloses |-> 0, frees |-> 0,
     stale_reads |-> 0]

\* The caller hands every operation a watchman_error_t with no message.
NoError == [message |-> NullStr, sets |-> 0]

\* watchman_err with a format that has no argument: sets error->message.
watchman_err(err, message) == [message |-> message, sets |-> err.sets + 1]

\* watchman_err with a format whose last item is %s.
watchman_err_s(err, message, arg) ==
    [message |-> message \o arg, sets |-> err.sets + 1]

NoOp == [name |-> "none", ret |-> 0]

NoWire == [val |-> JsonNull, nl |-> FALSE]

NoLine == [cmd |-> JsonNull, nl |-> FALSE]

\* A NULL result pointer.
NullList == [nr |-> -1, roots |-> <<>>]

\* The result struct as calloc leaves it; NullResult is the NULL pointer.
ZeroResult ==
    [nr |-> 0, stats |-> <<>>, has_stats |-> FALSE, version |-> NullStr,
     clock |-> NullStr, is_fresh_instance |-> 0]

NullResult == [ZeroResult EXCEPT !.nr = -1]

\* One watchman_stat_t as calloc leaves it.
ZeroStat == [name |-> NullStr, exists |-> 0, mode |-> 0, newer |-> 0, size |-> 0]

EmptyHeap == [alloc |-> {}, freed |-> <<>>]

\* The caller is in no operation.
IdlePc == [at |-> "idle", args |-> <<>>, query |-> JsonNull]

\* Nothing written, nothing answered, nothing read.
NoLog ==
    [ ops |-> 0,          \* operations started
      ncmd |-> 0,         \* command lines written in full
      loads |-> 0,        \* calls of json_loadf
      wrote |-> <<>>,     \* what the operation in progress put on the stream
      before |-> <<>>,    \* the incoming stream, had its json_loadf not run
      got |-> 0,          \* the command whose reply that json_loadf parsed
      read |-> FALSE,     \* the operation went through watchman_read
      reply |-> [id |-> 0, v |-> JsonNull, good |-> TRUE],  \* the last reply sent
      badat |-> 0,        \* the first command answered badly, 0 when none was
      stray |-> FALSE ]   \* the daemon answered a line that was no command

malloc(h, block) == [h EXCEPT !.alloc = @ \cup {block}]

free(h, block) == [h EXCEPT !.freed = Append(@, block)]

(***************************************************************************)
(* Inputs of the constructors.                                             *)
(***************************************************************************)
Cursors == {"c:1:2"}

Times == {0, 42}

Suffixes == {"py"}

Patterns == {"*.c"}

NameStrs == {"a", "b"}

TypeChars == {"f", "d"}

SeqsOf(S, n) == [1 .. n -> S]

RECURSIVE NodeCount(_)
RECURSIVE SumCounts(_, _)
SumCounts(es, i) == IF i > Len(es) THEN 0 ELSE NodeCount(es[i]) + SumCounts(es, i + 1)

NodeCount(e) == 1 + SumCounts(e.clauses, 1) + SumCounts(e.not_clause, 1)

NoCall == [fn |-> "none", ty |-> -1, nr |-> 0, exprs |-> <<>>, strs |-> <<>>,
           num |-> 0, opt |-> 0]

\* The caller's record of a call: the constructor and what it was given.
Call(fn, ty, nr, exprs, strs, num, opt) ==
    [fn |-> fn, ty |-> ty, nr |-> nr, exprs |-> exprs, strs |-> strs,
     num |-> num, opt |-> opt]

\* A constructor returns node to its caller.
Returns(node, c) ==
    /\ expr' = node
    /\ call' = c
    /\ json' = JsonNull
    /\ UNCHANGED <<aborted, connVars, streamVars>>

\* A failed assert, or a fault: the call never returns, and the process is gone.
Aborts(c) ==
    /\ aborted' = TRUE
    /\ call' = c
    /\ expr' = NullExpr
    /\ json' = JsonNull
    /\ UNCHANGED <<connVars, streamVars>>

(***************************************************************************)
(* The constructors. The strings handed to them are never NULL, so their   *)
(* assert(since), assert(suffix), assert(match), assert(name) pass.        *)
(***************************************************************************)
since_node(since, spec) ==
    [alloc_expr(WATCHMAN_EXPR_TY_SINCE) EXCEPT
        !.is_time_t = 0, !.since = since, !.clockspec = spec]

watchman_since_expression ==
    /\ ~aborted
    /\ \E since \in Cursors, spec \in ClockspecVals :
           Returns(since_node(since, spec),
                   Call("since", WATCHMAN_EXPR_TY_SINCE, 0, <<>>, <<since>>, 0, spec))

since_time_t_node(time, spec) ==
    [alloc_expr(WATCHMAN_EXPR_TY_SINCE) EXCEPT
        !.is_time_t = 1, !.time = time, !.clockspec = spec]

watchman_since_expression_time_t ==
    /\ ~aborted
    /\ \E time \in Times, spec \in ClockspecVals :
           Returns(since_time_t_node(time, spec),
                   Call("since_time_t", WATCHMAN_EXPR_TY_SINCE, 0, <<>>, <<>>, time, spec))

\* STATIC_EXPR: the four shared nodes that carry a type and nothing else.
STATIC_EXPR(ty) == alloc_expr(ty)

watchman_static_expression ==
    /\ ~aborted
    /\ \E ty \in {WATCHMAN_EXPR_TY_EMPTY, WATCHMAN_EXPR_TY_TRUE,
                  WATCHMAN_EXPR_TY_FALSE, WATCHMAN_EXPR_TY_EXISTS} :
           Returns(STATIC_EXPR(ty), Call("static", ty, 0, <<>>, <<>>, 0, 0))

suffix_node(suffix) ==
    [alloc_expr(WATCHMAN_EXPR_TY_SUFFIX) EXCEPT !.suffix = suffix]

watchman_suffix_expression ==
    /\ ~aborted
    /\ \E suffix \in Suffixes :
           Returns(suffix_node(suffix),
                   Call("suffix", WATCHMAN_EXPR_TY_SUFFIX, 0, <<>>, <<suffix>>, 0, 0))

MATCH_EXPR(ty, match, basename) ==
    [alloc_expr(ty) EXCEPT !.match = match, !.basename = basename]

watchman_match_expression ==
    /\ ~aborted
    /\ \E ty \in {WATCHMAN_EXPR_TY_MATCH, WATCHMAN_EXPR_TY_IMATCH,
                  WATCHMAN_EXPR_TY_PCRE, WATCHMAN_EXPR_TY_IPCRE},
          match \in Patterns, basename \in BasenameVals :
           Returns(MATCH_EXPR(ty, match, basename),
                   Call("match", ty, 0, <<>>, <<match>>, 0, basename))

type_node(c) == [alloc_expr(WATCHMAN_EXPR_TY_TYPE) EXCEPT !.type = c]

watchman_type_expression ==
    /\ ~aborted
    /\ \E c \in TypeChars :
           Returns(type_node(c),
                   Call("type", WATCHMAN_EXPR_TY_TYPE, 0, <<>>, <<c>>, 0, 0))

\* The expressions a caller has at hand to pass as children.
StaticLeaves ==
    { STATIC_EXPR(WATCHMAN_EXPR_TY_TRUE),
      [alloc_expr(WATCHMAN_EXPR_TY_NAME) EXCEPT
          !.name_nr = 2, !.names = <<"a", "b">>, !.basename = 2] }

Pool == StaticLeaves \cup (IF IsNode(expr) THEN {expr} ELSE {})

\* watchman_not_expression ends in "return ;": it builds no node, and its caller
\* reads a return value that was never set. The caller may find there NULL, the
\* argument (left in the return register), or a pointer to anything else.
not_result(expression) == {NullExpr, WildExpr, expression}

watchman_not_expression ==
    /\ ~aborted
    /\ \E expression \in Pool :
           \E r \in not_result(expression) :
               Returns(r, Call("not", WATCHMAN_EXPR_TY_NOT, 1, <<expression>>,
                                  <<>>, 0, 0))

\* UNION_EXPR: assert(nr), then a node whose clauses are the nr pointers given.
\* The memcpy reads nr * sizeof(watchman_expression_t) bytes from an array of nr
\* pointers: the first nr entries are the pointers, and the read past the
\* caller's array either goes unnoticed or faults.
union_node(ty, nr, expressions) ==
    [alloc_expr(ty) EXCEPT
        !.union_nr = nr, !.clauses = [i \in 1 .. nr |-> expressions[i]]]

\* UNION_EXPR without its assert(nr).
UNION_EXPR_NoAssert(ty, nr, expressions) ==
    LET c == Call("union", ty, nr, expressions, <<>>, 0, 0)
    IN  /\ 1 + SumCounts(expressions, 1) <= MaxNodes
        /\ \/ Returns(union_node(ty, nr, expressions), c)
           \/ Aborts(c)

\* UNION_EXPR filling the clauses from the end of the caller's array.
UNION_EXPR_Reversed(ty, nr, expressions) ==
    LET c == Call("union", ty, nr, expressions, <<>>, 0, 0)
        rev == [i \in 1 .. nr |-> expressions[nr + 1 - i]]
    IN  /\ 1 + SumCounts(expressions, 1) <= MaxNodes
        /\ IF nr = 0
           THEN Aborts(c)
           ELSE \/ Returns(union_node(ty, nr, rev), c)
                \/ Aborts(c)

UNION_EXPR(ty, nr, expressions) ==
    LET c == Call("union", ty, nr, expressions, <<>>, 0, 0)
    IN  /\ 1 + SumCounts(expressions, 1) <= MaxNodes
        /\ IF nr = 0
           THEN Aborts(c)
           ELSE \/ Returns(union_node(ty, nr, expressions), c)
                \/ Aborts(c)

watchman_allof_expression ==
    /\ ~aborted
    /\ \E nr \in 0 .. MaxClauses :
           \E expressions \in SeqsOf(Pool, nr) :
               UNION_EXPR(WATCHMAN_EXPR_TY_ALLOF, nr, expressions)

watchman_anyof_expression ==
    /\ ~aborted
    /\ \E nr \in 0 .. MaxClauses :
           \E expressions \in SeqsOf(Pool, nr) :
               UNION_EXPR(WATCHMAN_EXPR_TY_ANYOF, nr, expressions)

\* NAMES_EXPR: assert(nr), then a node holding copies of the nr names. The
\* basename argument is stored nowhere. to_json reads the scope of a name node
\* through e.match_expr.basename, bytes of the union that this constructor
\* either left zeroed or filled with part of e.name_expr: what is read there is
\* any scope, or a value outside basename_str.
ScopeSlotVals == 0 .. Len(basename_str)

names_node(ty, nr, names, slot) ==
    [alloc_expr(ty) EXCEPT
        !.name_nr = nr, !.names = [i \in 1 .. nr |-> names[i]], !.basename = slot]

NAMES_EXPR(ty, nr, names, basename) ==
    LET c == Call("names", ty, nr, <<>>, names, 0, basename)
    IN  IF nr = 0
        THEN Aborts(c)
        ELSE \E slot \in ScopeSlotVals : Returns(names_node(ty, nr, names, slot), c)

watchman_names_expression ==
    /\ ~aborted
    /\ \E ty \in {WATCHMAN_EXPR_TY_NAME, WATCHMAN_EXPR_TY_INAME},
          nr \in 0 .. MaxNames, basename \in BasenameVals :
           \E names \in SeqsOf(NameStrs, nr) :
               NAMES_EXPR(ty, nr, names, basename)

\* NAME_EXPR: the one-name constructors call the names constructors with nr 1.
NAME_EXPR(ty, name, basename) == NAMES_EXPR(ty, 1, <<name>>, basename)

watchman_name_expression ==
    /\ ~aborted
    /\ \E ty \in {WATCHMAN_EXPR_TY_NAME, WATCHMAN_EXPR_TY_INAME},
          name \in NameStrs, basename \in BasenameVals :
           NAME_EXPR(ty, name, basename)

\* Compiling e dereferences a bad pointer or indexes past basename_str.
RECURSIVE Faults(_)
Faults(e) ==
    \/ ~IsNode(e)
    \/ /\ e.ty \in {WATCHMAN_EXPR_TY_NAME, WATCHMAN_EXPR_TY_INAME}
       /\ e.basename \notin BasenameVals
    \/ \E i \in 1 .. Len(e.clauses) : Faults(e.clauses[i])
    \/ \E i \in 1 .. Len(e.not_clause) : Faults(e.not_clause[i])

\* watchman_query compiles the caller's expression into the query it sends.
CompileExpression ==
    /\ ~aborted
    /\ call.fn # "none"
    /\ IF Faults(expr)
       THEN Aborts(call)
       ELSE json' = to_json(expr) /\ UNCHANGED <<expr, call, aborted, connVars, streamVars>>

Init ==
    /\ expr = NullExpr
    /\ call = NoCall
    /\ json = JsonNull
    /\ aborted = FALSE
    /\ conn = NewConn
    /\ op = NoOp
    /\ error = NoError
    /\ wire = NoWire
    /\ sent = NoLine
    /\ list = NullList
    /\ qres = NullResult
    /\ heap = EmptyHeap
    /\ out = <<>>
    /\ inp = <<>>
    /\ pc = IdlePc
    /\ log = NoLog

NextExpr ==
    \/ watchman_since_expression
    \/ watchman_since_expression_time_t
    \/ watchman_static_expression
    \/ watchman_suffix_expression
    \/ watchman_match_expression
    \/ watchman_type_expression
    \/ watchman_not_expression
    \/ watchman_allof_expression
    \/ watchman_anyof_expression
    \/ CompileExpression

SpecExpr == Init /\ [][NextExpr]_vars

\* The name constructors, and the compilation of what they build.
NextNames ==
    \/ watchman_names_expression
    \/ watchman_name_expression
    \/ CompileExpression

SpecNames == Init /\ [][NextNames]_vars

\* The constructors that take a list (of children, of names).
NextLists ==
    \/ watchman_allof_expression
    \/ watchman_anyof_expression
    \/ watchman_names_expression
    \/ watchman_name_expression
    \/ CompileExpression

SpecLists == Init /\ [][NextLists]_vars

(***************************************************************************)
(* Properties of the expression constructors and of the compiler.          *)
(***************************************************************************)
JsonArrayOf(elems) == [json_array EXCEPT !.a = elems]

\* C4: for every expression e, the Not constructor returns a node of kind Not
\* whose single child is e, and that node compiles to ["not", compile(e)].
C4_NotWrapsArgument ==
    (call.fn = "not" /\ ~aborted) =>
        /\ expr.ty = WATCHMAN_EXPR_TY_NOT
        /\ expr.not_clause = call.exprs
        /\ to_json(expr) = JsonArrayOf(<<json_string("not"), to_json(call.exprs[1])>>)

\* The compiled form the name constructors are meant to produce for a call.
NameForm(c) ==
    LET x == IF c.nr = 1
             THEN json_string(c.strs[1])
             ELSE JsonArrayOf([i \in 1 .. c.nr |-> json_string(c.strs[i])])
        tag == IF c.ty = WATCHMAN_EXPR_TY_NAME THEN "name" ELSE "iname"
        scope == CASE c.opt = 0 -> <<>>
                   [] c.opt = 1 -> <<json_string("basename")>>
                   [] c.opt = 2 -> <<json_string("wholename")>>
    IN  JsonArrayOf(<<json_string(tag), x>> \o scope)

\* C5: a node built by the Name/IName constructors from a non-empty name list
\* compiles to [tag, X] for scope none and [tag, X, scopeName] otherwise, X the
\* bare name for one name and the array of names in order for more: the scope
\* passed to the constructor is the scope in the compiled form.
C5_NameScopeCompiled ==
    (call.fn = "names" /\ ~aborted) =>
        /\ ~Faults(expr)
        /\ to_json(expr) = NameForm(call)

\* The compiled form a Since expression is meant to have for a call.
SinceForm(c) ==
    LET value == IF c.fn = "since" THEN json_string(c.strs[1]) ELSE json_integer(c.num)
        spec == CASE c.opt = 0 -> <<>>
                  [] c.opt = 1 -> <<json_string("oclock")>>
                  [] c.opt = 2 -> <<json_string("mtime")>>
                  [] c.opt = 3 -> <<json_string("ctime")>>
    IN  JsonArrayOf(<<json_string("since"), value>> \o spec)

\* C6: a Since expression compiles to ["since", value] when the clockspec is
\* none and to ["since", value, name] otherwise, value the cursor string or the
\* integer timestamp, name "oclock", "mtime" or "ctime" as chosen.
C6_SinceClockspecName ==
    (call.fn \in {"since", "since_time_t"} /\ ~aborted) =>
        to_json(expr) = SinceForm(call)

\* No union node of the tree has an empty clause list, no name node an empty
\* name list.
RECURSIVE NoEmptyList(_)
NoEmptyList(e) ==
    /\ e.ty \in {WATCHMAN_EXPR_TY_ALLOF, WATCHMAN_EXPR_TY_ANYOF} =>
           e.union_nr > 0 /\ Len(e.clauses) > 0
    /\ e.ty \in {WATCHMAN_EXPR_TY_NAME, WATCHMAN_EXPR_TY_INAME} =>
           e.name_nr > 0 /\ Len(e.names) > 0
    /\ \A i \in 1 .. Len(e.clauses) : NoEmptyList(e.clauses[i])
    /\ \A i \in 1 .. Len(e.not_clause) : NoEmptyList(e.not_clause[i])

\* C9: a call of the AllOf/AnyOf constructors with zero children, or of the
\* Name/IName constructors with zero names, never returns a node, and no
\* expression tree the program holds has an empty clause list or name list.
C9_EmptyListRejected ==
    /\ (call.fn \in {"union", "names"} /\ call.nr = 0) =>
           aborted /\ expr = NullExpr
    /\ NoEmptyList(expr)

C9_Witness ==
    /\ call.fn \in {"union", "names"}
    /\ call.nr = 0
    /\ aborted

\* C10: the node AllOf builds from e1..en (n > 0) compiles to
\* ["allof", compile(e1), ..., compile(en)], children in the order given; AnyOf
\* likewise with "anyof"; the children may be unions themselves.
C10_UnionCompilesInOrder ==
    (call.fn = "union" /\ ~aborted) =>
        LET tag == IF call.ty = WATCHMAN_EXPR_TY_ALLOF THEN "allof" ELSE "anyof"
            form == JsonArrayOf(<<json_string(tag)>>
                                \o [i \in 1 .. call.nr |-> to_json(call.exprs[i])])
        IN  /\ to_json(expr) = form
            /\ json # JsonNull => json = form

C10_Witness ==
    /\ call.fn = "union"
    /\ ~aborted
    /\ call.nr = 2
    /\ call.exprs[1] # call.exprs[2]
    /\ json # JsonNull

(***************************************************************************)
(* jansson, as far as the protocol code uses it.                           *)
(***************************************************************************)
json_is_object(v) == v.k = "object"

json_is_array(v) == v.k = "array"

json_is_string(v) == v.k = "string"

json_is_true(v) == v.k = "true"

json_is_boolean(v) == v.k \in {"true", "false"}

json_array_size(v) == IF json_is_array(v) THEN Len(v.a) ELSE 0

json_array_get(v, i) ==
    IF json_is_array(v) /\ i \in 1 .. Len(v.a) THEN v.a[i] ELSE JsonNull

\* The value of the first member named key; NULL when there is none.
json_object_get(obj, key) ==
    LET hits == {i \in 1 .. Len(obj.o) : obj.o[i].key = key}
    IN  IF json_is_object(obj) /\ hits # {}
        THEN obj.o[CHOOSE i \in hits : \A j \in hits : i <= j].val
        ELSE JsonNull

json_string_value(v) == IF json_is_string(v) THEN v.s ELSE NullStr

json_integer_value(v) == IF v.k = "integer" THEN v.n ELSE 0

RECURSIVE Encode(_)
RECURSIVE EncodeItems(_, _)
RECURSIVE EncodeMembers(_, _)
EncodeItems(a, i) ==
    IF i > Len(a) THEN ""
    ELSE (IF i > 1 THEN ", " ELSE "") \o Encode(a[i]) \o EncodeItems(a, i + 1)

EncodeMembers(o, i) ==
    IF i > Len(o) THEN ""
    ELSE (IF i > 1 THEN ", " ELSE "") \o "\"" \o o[i].key \o "\": "
         \o Encode(o[i].val) \o EncodeMembers(o, i + 1)

\* The text of a value, as json_dumps writes it with flags 0.
Encode(v) ==
    CASE v.k = "string" -> "\"" \o v.s \o "\""
      [] v.k = "integer" -> ToString(v.n)
      [] v.k = "true" -> "true"
      [] v.k = "false" -> "false"
      [] v.k = "array" -> "[" \o EncodeItems(v.a, 1) \o "]"
      [] v.k = "object" -> "{" \o EncodeMembers(v.o, 1) \o "}"
      [] OTHER -> "null"

\* json_dumps(v, 0) encodes arrays and objects only; for any other value, and
\* for NULL, it returns NULL.
json_dumps(v) == IF json_is_array(v) \/ json_is_object(v) THEN Encode(v) ELSE NullStr

(***************************************************************************)
(* The fields codec.                                                       *)
(***************************************************************************)
fields_str ==
    << "name", "exists", "cclock", "oclock", "ctime", "ctime_ms", "ctime_us",
       "ctime_ns", "ctime_f", "mtime", "mtime_ms", "mtime_us", "mtime_ns",
       "mtime_f", "size", "uid", "gid", "ino", "dev", "nlink", "new" >>

\* WATCHMAN_FIELD_NEWER is the bit of the last entry of fields_str.
WATCHMAN_FIELD_NEWER == 2 ^ (Len(fields_str) - 1)

\* The loop over mask = 1, 2, 4, ..., WATCHMAN_FIELD_NEWER with i counting the
\* entries of fields_str: entry i is emitted when bit i of fields is set.
fields_to_json(fields) ==
    LET all == [i \in 1 .. Len(fields_str) |-> i]
        set == SelectSeq(all, LAMBDA i :
                   /\ 2 ^ (i - 1) <= WATCHMAN_FIELD_NEWER
                   /\ (fields \div (2 ^ (i - 1))) % 2 = 1)
    IN  [json_array EXCEPT !.a = [j \in 1 .. Len(set) |-> json_string(fields_str[set[j]])]]

(***************************************************************************)
(* Sending a command and receiving a reply.                                *)
(***************************************************************************)
\* The array of strings watchman_send_simple_cmd builds from its arguments.
RECURSIVE cmd_array(_, _)
cmd_array(args, i) ==
    IF i > Len(args) THEN json_array
    ELSE LET rest == cmd_array(args, i + 1)
         IN  [rest EXCEPT !.a = <<json_string(args[i])>> \o @]

\* watchman_send_simple_cmd: json_dumpf of the array (dumped tells whether it
\* succeeded), then a newline whatever json_dumpf returned.
watchman_send_simple_cmd(err, args, dumped) ==
    [ result |-> IF dumped THEN 0 ELSE 1,
      error |-> IF dumped THEN err
                ELSE watchman_err(err, "Failed to send simple watchman command"),
      line |-> [cmd |-> cmd_array(args, 1), nl |-> TRUE] ]

\* watchman_read: one value parsed from the stream (w.val, NULL when the parse
\* failed), then the next byte, which must be a newline (w.nl).
watchman_read(w, err) ==
    LET e1 == IF w.val = JsonNull
              THEN watchman_err_s(err,
                       "Got unparseable or empty result from watchman: ",
                       "parse error")
              ELSE err
    IN  IF ~w.nl
        THEN [result |-> JsonNull, error |-> watchman_err(e1, "No newline at end of reply")]
        ELSE [result |-> w.val, error |-> e1]

watchman_read_and_handle_errors(w, err) ==
    LET rd == watchman_read(w, err)
        obj == rd.result
        error_json == json_object_get(obj, "error")
    IN  IF obj = JsonNull
        THEN [status |-> 1, error |-> rd.error]
        ELSE IF ~json_is_object(obj)
        THEN [status |-> 1,
              error |-> watchman_err_s(rd.error,
                            "Got non-object result from watchman : ", json_dumps(obj))]
        ELSE IF error_json # JsonNull
        THEN [status |-> 1,
              error |-> watchman_err_s(rd.error,
                            "Got error result from watchman : ",
                            json_string_value(error_json))]
        ELSE [status |-> 0, error |-> rd.error]

(***************************************************************************)
(* The decoders.                                                           *)
(***************************************************************************)
\* The loop of watchman_watch_list over the roots: a root that is no string
\* sets the error and leaves the loop with res as built so far.
RECURSIVE roots_loop(_, _, _, _)
roots_loop(roots, i, res, err) ==
    IF i > res.nr THEN [res |-> res, error |-> err]
    ELSE LET root == json_array_get(roots, i)
         IN  IF ~json_is_string(root)
             THEN [res |-> res,
                   error |-> watchman_err_s(err,
                                 "Got non-string root from watch-list ",
                                 json_dumps(root))]
             ELSE roots_loop(roots, i + 1,
                             [res EXCEPT !.roots[i] = json_string_value(root)], err)

\* watchman_watch_list: what it returns (res) and the error and line it leaves.
watch_list(dumped, w) ==
    LET s == watchman_send_simple_cmd(NoError, <<"watch-list">>, dumped)
        rd == watchman_read(w, s.error)
        obj == rd.result
        roots == json_object_get(obj, "roots")
        nr == json_array_size(roots)
        res0 == [nr |-> nr, roots |-> [i \in 1 .. nr |-> NullStr]]
        lp == roots_loop(roots, 1, res0, rd.error)
    IN  IF s.result # 0
        THEN [res |-> NullList, error |-> s.error, line |-> s.line]
        ELSE IF obj = JsonNull
        THEN [res |-> NullList, error |-> rd.error, line |-> s.line]
        ELSE IF ~json_is_object(obj)
        THEN [res |-> NullList, line |-> s.line,
              error |-> watchman_err_s(rd.error,
                            "Got bogus value from watch-list ", json_dumps(obj))]
        ELSE IF ~json_is_array(roots)
        THEN [res |-> NullList, line |-> s.line,
              error |-> watchman_err_s(rd.error,
                            "Got bogus value from watch-list ", json_dumps(roots))]
        ELSE [res |-> lp.res, error |-> lp.error, line |-> s.line]

\* The block that holds the name of stats[i].
NameBlock(i) == "name" \o ToString(i)

watchman_dealloc_stat(res, i, h) ==
    IF res.stats[i].name # NullStr THEN free(h, NameBlock(i)) ELSE h

RECURSIVE dealloc_stats(_, _, _)
dealloc_stats(res, i, h) ==
    IF i > res.nr THEN h
    ELSE dealloc_stats(res, i + 1, watchman_dealloc_stat(res, i, h))

\* watchman_free_query_result freeing the stats array without the names in it.
watchman_free_query_result_KeepsNames(res, h) ==
    LET h1 == IF res.version # NullStr THEN free(h, "version") ELSE h
        h2 == IF res.clock # NullStr THEN free(h1, "clock") ELSE h1
        h3 == IF res.has_stats THEN free(h2, "stats") ELSE h2
    IN  free(h3, "res")

\* watchman_free_query_result: the heap after it released result.
watchman_free_query_result(res, h) ==
    LET h1 == IF res.version # NullStr THEN free(h, "version") ELSE h
        h2 == IF res.clock # NullStr THEN free(h1, "clock") ELSE h1
        h3 == IF res.has_stats THEN free(dealloc_stats(res, 1, h2), "stats") ELSE h2
    IN  free(h3, "res")

\* The object form of one element of files, name already checked.
stat_from_object(statobj) ==
    LET name == json_object_get(statobj, "name")
        exists == json_object_get(statobj, "exists")
        mode == json_object_get(statobj, "mode")
        newer == json_object_get(statobj, "new")
        size == json_object_get(statobj, "size")
        s1 == [ZeroStat EXCEPT !.name = json_string_value(name)]
        s2 == IF exists # JsonNull
              THEN [s1 EXCEPT !.exists = IF json_is_true(exists) THEN 1 ELSE 0]
              ELSE s1
        s3 == IF mode # JsonNull
              THEN [s2 EXCEPT !.mode = json_integer_value(mode)]
              ELSE s2
        s4 == IF newer # JsonNull
              THEN [s3 EXCEPT !.newer = IF json_is_true(newer) THEN 1 ELSE 0]
              ELSE s3
    IN  \* the size is stored in newer
        IF size # JsonNull
        THEN [s4 EXCEPT !.newer = json_integer_value(size)]
        ELSE s4

\* The loop of watchman_do_query over files; ok is FALSE when a JSON_ASSERT
\* jumped to done.
RECURSIVE stats_loop(_, _, _, _, _)
stats_loop(files, i, res, h, err) ==
    IF i > res.nr THEN [ok |-> TRUE, res |-> res, heap |-> h, error |-> err]
    ELSE LET statobj == json_array_get(files, i)
             name == json_object_get(statobj, "name")
         IN  IF json_is_string(statobj)
             THEN stats_loop(files, i + 1,
                      [res EXCEPT !.stats[i].name = json_string_value(statobj)],
                      malloc(h, NameBlock(i)), err)
             ELSE IF ~json_is_object(statobj)
             THEN [ok |-> FALSE, res |-> res, heap |-> h,
                   error |-> watchman_err_s(err, "must be object: ",
                                            json_dumps(statobj))]
             ELSE IF ~json_is_string(name)
             THEN [ok |-> FALSE, res |-> res, heap |-> h,
                   error |-> watchman_err_s(err, "name must be string: ",
                                            json_dumps(name))]
             ELSE stats_loop(files, i + 1,
                      [res EXCEPT !.stats[i] = stat_from_object(statobj)],
                      malloc(h, NameBlock(i)), err)

\* The label done of watchman_do_query: release res, return NULL.
query_done(res, h, err) ==
    [result |-> NullResult, heap |-> watchman_free_query_result(res, h), error |-> err]

\* The decoding part of watchman_do_query, from the reply object on. calloc0
\* tells whether calloc(0, ...) returns a block (or NULL) on this platform.
decode_query(obj, err, calloc0) ==
    LET res0 == ZeroResult
        h0 == malloc(EmptyHeap, "res")
        files == json_object_get(obj, "files")
        nr == json_array_size(files)
        got == nr > 0 \/ calloc0
        res1 == [res0 EXCEPT !.nr = nr, !.stats = [i \in 1 .. nr |-> ZeroStat],
                             !.has_stats = got]
        h1 == IF got THEN malloc(h0, "stats") ELSE h0
        lp == stats_loop(files, 1, res1, h1, err)
        version == json_object_get(obj, "version")
        res2 == [lp.res EXCEPT !.version = json_string_value(version)]
        h2 == malloc(lp.heap, "version")
        clock == json_object_get(obj, "clock")
        res3 == [res2 EXCEPT !.clock = json_string_value(clock)]
        h3 == malloc(h2, "clock")
        fresh == json_object_get(obj, "is_fresh_instance")
        res4 == [res3 EXCEPT !.is_fresh_instance = IF json_is_true(fresh) THEN 1 ELSE 0]
    IN  IF ~json_is_object(obj)
        THEN [result |-> NullResult, heap |-> EmptyHeap,
              error |-> watchman_err_s(err, "Failed to send watchman query ",
                                       json_dumps(obj))]
        ELSE IF ~json_is_array(files)
        THEN query_done(res0, h0,
                 watchman_err_s(err, "Bad files ", json_dumps(files)))
        ELSE IF ~lp.ok
        THEN query_done(lp.res, lp.heap, lp.error)
        ELSE IF ~json_is_string(version)
        THEN query_done(lp.res, lp.heap,
                 watchman_err_s(lp.error, "Bad version ", json_dumps(version)))
        ELSE IF ~json_is_string(clock)
        THEN query_done(res2, h2,
                 watchman_err_s(lp.error, "Bad clock ", json_dumps(clock)))
        ELSE IF ~json_is_boolean(fresh)
        THEN query_done(res3, h3,
                 watchman_err_s(lp.error, "Bad is_fresh_instance ", json_dumps(fresh)))
        ELSE [result |-> res4, heap |-> h3, error |-> lp.error]

\* watchman_do_query: write the query and a newline, read the reply, decode it.
watchman_do_query(query, dumped, w, calloc0) ==
    LET rd == watchman_read(w, NoError)
        dec == decode_query(rd.result, rd.error, calloc0)
    IN  IF ~dumped
        THEN [result |-> NullResult, heap |-> EmptyHeap,
              line |-> [cmd |-> query, nl |-> FALSE],
              error |-> watchman_err_s(NoError, "Failed to send watchman query ",
                                       json_dumps(query))]
        ELSE IF rd.result = JsonNull
        THEN [result |-> NullResult, heap |-> EmptyHeap,
              line |-> [cmd |-> query, nl |-> TRUE], error |-> rd.error]
        ELSE [result |-> dec.result, heap |-> dec.heap,
              line |-> [cmd |-> query, nl |-> TRUE], error |-> dec.error]

\* The command watchman_query builds.
query_json(fs_path, e, fields) ==
    LET obj == json_object_set_new(
                   json_object_set_new(json_object, "expression", to_json(e)),
                   "fields", fields_to_json(fields))
    IN  json_array_append_new(
            json_array_append_new(
                json_array_append_new(json_array, json_string("query")),
                json_string(fs_path)),
            obj)

(***************************************************************************)
(* What the daemon may reply.                                              *)
(***************************************************************************)
\* An object with the members of pairs whose value is present.
ObjectOf(pairs) ==
    [json_object EXCEPT !.o = SelectSeq(pairs, LAMBDA m : m.val # JsonNull)]

Member(key, v) == [key |-> key, val |-> v]

ArraysOf(S, n) == {[json_array EXCEPT !.a = s] : s \in UNION {SeqsOf(S, i) : i \in 0 .. n}}

DaemonError == "root not watched"

ErrorVals == {JsonNull, json_string(DaemonError)}

FileElems ==
    { json_string("a.txt"),
      ObjectOf(<<Member("name", json_string("b.txt")), Member("exists", json_true),
                 Member("size", json_integer(42))>>),
      ObjectOf(<<Member("name", json_string("c.txt")), Member("exists", json_false),
                 Member("mode", json_integer(420)), Member("new", json_true)>>),
      ObjectOf(<<Member("name", json_string("d.txt")), Member("new", json_true),
                 Member("size", json_integer(0))>>),
      ObjectOf(<<Member("exists", json_true)>>),
      json_integer(7) }

QueryReplies ==
    { ObjectOf(<<Member("version", v), Member("clock", c),
                 Member("is_fresh_instance", b), Member("files", f),
                 Member("error", e)>>) :
        v \in {JsonNull, json_string("3.0"), json_integer(3)},
        c \in {JsonNull, json_string("c:1:2"), json_true},
        b \in {JsonNull, json_true, json_false, json_string("yes")},
        f \in {JsonNull, json_string("x")} \cup ArraysOf(FileElems, MaxFiles),
        e \in ErrorVals }

RootElems == {json_string("/r"), json_string("/s"), json_integer(7)}

ListReplies ==
    { ObjectOf(<<Member("version", json_string("3.0")), Member("roots", r),
                 Member("error", e)>>) :
        r \in {JsonNull, json_string("/r")} \cup ArraysOf(RootElems, MaxRoots),
        e \in ErrorVals }

WatchReplies ==
    { ObjectOf(<<Member("version", json_string("3.0")),
                 Member("watch", json_string("/r"))>>),
      ObjectOf(<<Member("error", json_integer(5))>>),
      [json_array EXCEPT !.a = <<json_string("/r")>>] }

Replies == QueryReplies \cup ListReplies \cup WatchReplies

\* What an operation finds on the stream: a value and the byte after it. When
\* the parse fails there is no value; the byte after may or may not be a newline.
Wires ==
    {[val |-> v, nl |-> TRUE] : v \in Replies \cup {JsonNull}}
        \cup {[val |-> v, nl |-> FALSE] : v \in WatchReplies \cup {JsonNull}}

Paths == {"/r"}

FieldMasks == {3, 16385}

(***************************************************************************)
(* The public operations. An operation runs on an open connection, once    *)
(* the caller has released what the one before it returned.                *)
(***************************************************************************)
Ready == op.name = "none" /\ conn.alive /\ conn.fp = "open"

\* watchman_watch and watchman_watch_del: the status they return, the error.
simple_op(cmd, path, dumped, w) ==
    LET s == watchman_send_simple_cmd(NoError, <<cmd, path>>, dumped)
        r == watchman_read_and_handle_errors(w, s.error)
    IN  IF s.result # 0
        THEN [ret |-> 1, error |-> s.error, line |-> s.line]
        ELSE [ret |-> r.status, error |-> r.error, line |-> s.line]

SimpleOp(cmd, path, dumped, w) ==
    \E r \in {simple_op(cmd, path, dumped, w)} :
        /\ op' = [name |-> cmd, ret |-> r.ret]
        /\ error' = r.error
        /\ wire' = w
        /\ sent' = r.line
        /\ UNCHANGED <<conn, list, qres, heap, exprVars, streamVars>>

\* Each operation either fails to write its command, and reads nothing, or
\* writes it and reads what the daemon sent.
watchman_watch ==
    /\ Ready
    /\ \E path \in Paths :
           \/ SimpleOp("watch", path, FALSE, NoWire)
           \/ \E w \in Wires : SimpleOp("watch", path, TRUE, w)

watchman_watch_del ==
    /\ Ready
    /\ \E path \in Paths :
           \/ SimpleOp("watch-del", path, FALSE, NoWire)
           \/ \E w \in Wires : SimpleOp("watch-del", path, TRUE, w)

WatchList(dumped, w) ==
    \E r \in {watch_list(dumped, w)} :
        /\ op' = [name |-> "watch-list", ret |-> IF r.res = NullList THEN 1 ELSE 0]
        /\ list' = r.res
        /\ error' = r.error
        /\ wire' = w
        /\ sent' = r.line
        /\ UNCHANGED <<conn, qres, heap, exprVars, streamVars>>

watchman_watch_list ==
    /\ Ready
    /\ \/ WatchList(FALSE, NoWire)
       \/ \E w \in Wires : WatchList(TRUE, w)

Query(query, dumped, w, calloc0) ==
    \E r \in {watchman_do_query(query, dumped, w, calloc0)} :
        /\ op' = [name |-> "query", ret |-> IF r.result = NullResult THEN 1 ELSE 0]
        /\ qres' = r.result
        /\ heap' = r.heap
        /\ error' = r.error
        /\ wire' = w
        /\ sent' = r.line
        /\ UNCHANGED <<conn, list, exprVars, streamVars>>

watchman_query ==
    /\ Ready
    /\ \E fs_path \in Paths, e \in StaticLeaves, fields \in FieldMasks :
           \E query \in {query_json(fs_path, e, fields)} :
               \/ Query(query, FALSE, NoWire, FALSE)
               \/ \E w \in Wires, calloc0 \in BOOLEAN : Query(query, TRUE, w, calloc0)

\* The caller is done with a result: watchman_free_watch_list,
\* watchman_free_query_result and watchman_free_error release it.
Release ==
    /\ op.name # "none"
    /\ op' = NoOp
    /\ error' = NoError
    /\ wire' = NoWire
    /\ sent' = NoLine
    /\ list' = NullList
    /\ qres' = NullResult
    /\ heap' = EmptyHeap
    /\ UNCHANGED <<conn, exprVars, streamVars>>

\* watchman_connection_close. On a live block: close the stream, clear fp,
\* free the block. On a block already freed the test of conn->fp reads freed
\* memory: it may find the NULL stored before the free, and return, or
\* anything else, and then fclose and free are run again.
close_outcomes(c) ==
    IF c.alive
    THEN IF c.fp = "NULL"
         THEN {[c EXCEPT !.closes = @ + 1]}
         ELSE {[c EXCEPT !.closes = @ + 1, !.fcloses = @ + 1, !.fp = "NULL",
                         !.frees = @ + 1, !.alive = FALSE]}
    ELSE {[c EXCEPT !.closes = @ + 1, !.stale_reads = @ + 1],
          [c EXCEPT !.closes = @ + 1, !.stale_reads = @ + 1,
                    !.fcloses = @ + 1, !.frees = @ + 1]}

watchman_connection_close ==
    /\ op.name = "none"
    /\ conn.closes < MaxCloses
    /\ \E c \in close_outcomes(conn) : conn' = c
    /\ UNCHANGED <<op, error, wire, sent, list, qres, heap, exprVars, streamVars>>

NextConn ==
    \/ watchman_watch
    \/ watchman_watch_del
    \/ watchman_watch_list
    \/ watchman_query
    \/ Release
    \/ watchman_connection_close

SpecConn == Init /\ [][NextConn]_vars

(***************************************************************************)
(* Properties of the public operations.                                    *)
(***************************************************************************)
Fallible == {"watch", "watch-del", "watch-list", "query"}

\* The operation that last returned handed its caller a success value.
ReturnedValue ==
    CASE op.name \in {"watch", "watch-del"} -> op.ret = 0
      [] op.name = "watch-list" -> list # NullList
      [] op.name = "query" -> qres # NullResult
      [] OTHER -> FALSE

ErrorSet == error.message # NullStr

\* C1: every fallible public operation ends, for every daemon reply, in exactly
\* one of two outcomes: a success value and no error message, or an error
\* message and no result.
C1_ValueOrError ==
    op.name \in Fallible => (ReturnedValue <=> ~ErrorSet)

\* The reply is an object with a string under the key error.
HasDaemonError(w) ==
    /\ w.nl
    /\ json_is_object(w.val)
    /\ json_is_string(json_object_get(w.val, "error"))

\* C2: for any command, a reply object that carries an error key with string
\* value m makes the operation fail with an error that carries m.
C2_DaemonErrorSurfaced ==
    (op.name \in Fallible /\ HasDaemonError(wire)) =>
        /\ ~ReturnedValue
        /\ error.message = "Got error result from watchman : "
                               \o json_object_get(wire.val, "error").s

\* C3: closing a connection again after it was closed is a no-op: it reads no
\* freed connection state and neither closes the stream nor frees the block a
\* second time.
C3_CloseIdempotent ==
    /\ conn.stale_reads = 0
    /\ conn.fcloses <= 1
    /\ conn.frees <= 1

\* The Stat an element of files is meant to decode to.
ExpectedStat(el) ==
    IF json_is_string(el)
    THEN [name |-> el.s, exists |-> 0, mode |-> 0, newer |-> 0, size |-> 0]
    ELSE [ name |-> json_object_get(el, "name").s,
           exists |-> IF json_object_get(el, "exists").k = "true" THEN 1 ELSE 0,
           mode |-> json_object_get(el, "mode").n,
           newer |-> IF json_object_get(el, "new").k = "true" THEN 1 ELSE 0,
           size |-> json_object_get(el, "size").n ]

\* C7: a decoded query reply has one Stat per element of files, in order: a
\* bare string gives its name and defaults; an object gives name, exists,
\* mode, newer (key new) and size, each from its own key, so that size lands in
\* the size attribute and never changes newer.
C7_StatPerElement ==
    (op.name = "query" /\ qres # NullResult) =>
        LET files == json_object_get(wire.val, "files")
        IN  /\ qres.nr = Len(files.a)
            /\ Len(qres.stats) = Len(files.a)
            /\ \A i \in 1 .. Len(files.a) : qres.stats[i] = ExpectedStat(files.a[i])

\* The reply is an object in which files, version, clock or is_fresh_instance
\* is absent or of the wrong type.
BadQueryReply(w) ==
    /\ w.nl
    /\ json_is_object(w.val)
    /\ \/ json_object_get(w.val, "files").k # "array"
       \/ json_object_get(w.val, "version").k # "string"
       \/ json_object_get(w.val, "clock").k # "string"
       \/ json_object_get(w.val, "is_fresh_instance").k \notin {"true", "false"}

Frees(h, block) == Cardinality({i \in 1 .. Len(h.freed) : h.freed[i] = block})

\* Every block allocated was freed exactly once, and nothing else was freed.
ReleasedOnce(h) ==
    /\ \A b \in h.alloc : Frees(h, b) = 1
    /\ \A i \in 1 .. Len(h.freed) : h.freed[i] \in h.alloc

\* C8: a query reply object whose files, version, clock or is_fresh_instance
\* is absent or of the wrong type makes watchman_query fail with an error and
\* no result, the partly built result (stats array, each name, version, clock)
\* released exactly once.
C8_BadReplyReleased ==
    (op.name = "query" /\ BadQueryReply(wire)) =>
        /\ qres = NullResult
        /\ op.ret # 0
        /\ ErrorSet
        /\ ReleasedOnce(heap)

C8_Witness ==
    /\ op.name = "query"
    /\ BadQueryReply(wire)
    /\ json_object_get(wire.val, "clock") = JsonNull
    /\ {"res", "stats", "name1", "name2", "version"} \subseteq heap.alloc
    /\ qres = NullResult
    /\ Len(heap.freed) = 5

(***************************************************************************)
(* The stream of a connection. It is modelled token by token: a JSON text, *)
(* a newline, a run of bytes that is no JSON text, the end of the stream.  *)
(* A value token carries the number of the command it is, or answers.      *)
(***************************************************************************)
ValTok(v, id) == [t |-> "val", v |-> v, id |-> id]

NlTok == [t |-> "nl", v |-> JsonNull, id |-> 0]

JunkTok == [t |-> "junk", v |-> JsonNull, id |-> 0]

EofTok == [t |-> "eof", v |-> JsonNull, id |-> 0]

\* json_dumpf(json, conn->fp, JSON_COMPACT): the text of the value when it
\* succeeds; when it fails, nothing or a part of the text.
json_dumpf(v, id, dumped, partial) ==
    IF dumped THEN <<ValTok(v, id)>> ELSE IF partial THEN <<JunkTok>> ELSE <<>>

\* fputc('\n', conn->fp).
fputc == <<NlTok>>

\* The white space json_loadf skips before the value.
RECURSIVE SkipSpace(_)
SkipSpace(s) == IF s # <<>> /\ Head(s).t = "nl" THEN SkipSpace(Tail(s)) ELSE s

\* A mistaken json_loadf that reads one token past the value it parsed.
json_loadf_ReadsAhead(s) ==
    LET r == SkipSpace(s)
        ahead == IF Len(r) >= 2 /\ r[2].t # "eof" THEN Tail(Tail(r)) ELSE Tail(r)
    IN  IF Head(r).t = "val" /\ (json_is_array(Head(r).v) \/ json_is_object(Head(r).v))
        THEN {[val |-> Head(r).v, id |-> Head(r).id, rest |-> ahead]}
        ELSE IF Head(r).t = "eof"
        THEN {[val |-> JsonNull, id |-> 0, rest |-> r]}
        ELSE {[val |-> JsonNull, id |-> 0, rest |-> Tail(r)],
              [val |-> JsonNull, id |-> 0, rest |-> ahead]}

\* json_loadf(conn->fp, JSON_DISABLE_EOF_CHECK, &jerror) on a stream that
\* holds a token after its white space: an array or an object is parsed and
\* reading stops at its closing bracket; anything else gives NULL, and the
\* scanner has then read the offending text and maybe the byte after it.
json_loadf(s) ==
    LET r == SkipSpace(s)
        ahead == IF Len(r) >= 2 /\ r[2].t # "eof" THEN Tail(Tail(r)) ELSE Tail(r)
    IN  IF Head(r).t = "val" /\ (json_is_array(Head(r).v) \/ json_is_object(Head(r).v))
        THEN {[val |-> Head(r).v, id |-> Head(r).id, rest |-> Tail(r)]}
        ELSE IF Head(r).t = "eof"
        THEN {[val |-> JsonNull, id |-> 0, rest |-> r]}
        ELSE {[val |-> JsonNull, id |-> 0, rest |-> Tail(r)],
              [val |-> JsonNull, id |-> 0, rest |-> ahead]}

\* fgetc(conn->fp) on a stream that holds a token: the byte, and what is left.
fgetc(s) == [c |-> Head(s).t, rest |-> IF Head(s).t = "eof" THEN s ELSE Tail(s)]

(***************************************************************************)
(* The daemon at the other end of the stream.                              *)
(***************************************************************************)
WatchReply ==
    ObjectOf(<<Member("version", json_string("3.0")),
               Member("watch", json_string("/r"))>>)

ErrorReply == ObjectOf(<<Member("error", json_string(DaemonError))>>)

ListReply ==
    ObjectOf(<<Member("version", json_string("3.0")),
               Member("roots", [json_array EXCEPT !.a = <<json_string("/r")>>])>>)

FilesReply ==
    ObjectOf(<<Member("version", json_string("3.0")),
               Member("clock", json_string("c:1:2")),
               Member("is_fresh_instance", json_true),
               Member("files", [json_array EXCEPT !.a = <<json_string("a.txt")>>])>>)

ArrayReply == [json_array EXCEPT !.a = <<json_string("/r")>>]

StreamReplies == {WatchReply, ErrorReply, ListReply, FilesReply, ArrayReply}

\* What the daemon may send for command id: one array or object and a
\* newline (good), or text that is no JSON text, a bare number, a value with
\* something else than a newline after it, a value and then the end of the
\* stream (not good).
ReplyForms(id) ==
    {[toks |-> <<ValTok(v, id), NlTok>>, v |-> v, good |-> TRUE] : v \in StreamReplies}
        \cup {[toks |-> toks, v |-> JsonNull, good |-> FALSE] :
                 toks \in { <<JunkTok, NlTok>>,
                            <<ValTok(json_integer(7), id), NlTok>>,
                            <<ValTok(WatchReply, id), JunkTok, NlTok>>,
                            <<ValTok(WatchReply, id), EofTok>> }}

\* Nothing arrives after the end of the stream.
Arrive(s, toks) == IF s # <<>> /\ s[Len(s)].t = "eof" THEN s ELSE s \o toks

FirstNl(s) ==
    CHOOSE i \in 1 .. Len(s) : s[i].t = "nl" /\ \A j \in 1 .. i - 1 : s[j].t # "nl"

\* The daemon takes the next line off the stream. A line that ends in a
\* command it answers once; a line that holds no command it drops, or answers
\* with an error of its own.
Daemon ==
    /\ \E i \in 1 .. Len(out) : out[i].t = "nl"
    /\ LET i == FirstNl(out)
           cmd == IF i >= 2 THEN out[i - 1] ELSE JunkTok
       IN  /\ out' = SubSeq(out, i + 1, Len(out))
           /\ IF cmd.t = "val"
              THEN \E rep \in ReplyForms(cmd.id) :
                       /\ inp' = Arrive(inp, rep.toks)
                       /\ log' = [log EXCEPT
                                      !.before = Arrive(@, rep.toks),
                                      !.reply = [id |-> cmd.id, v |-> rep.v,
                                                 good |-> rep.good],
                                      !.badat = IF @ = 0 /\ ~rep.good
                                                THEN cmd.id ELSE @]
              ELSE \/ UNCHANGED <<inp, log>>
                   \/ \E toks \in {<<ValTok(ErrorReply, 0), NlTok>>} :
                          /\ inp' = Arrive(inp, toks)
                          /\ log' = [log EXCEPT !.before = Arrive(@, toks),
                                                !.stray = TRUE]
    /\ UNCHANGED <<pc, connVars, exprVars>>

(***************************************************************************)
(* The public operations, step by step on the stream: the write of the     *)
(* command line, json_loadf, then fgetc and the rest of the operation.     *)
(***************************************************************************)
SimpleCmds ==
    {<<"watch", p>> : p \in Paths} \cup {<<"watch-del", p>> : p \in Paths}
        \cup {<<"watch-list">>}

StreamReady == Ready /\ pc.at = "idle" /\ log.ops < MaxOps

\* watchman_send_simple_cmd in watchman_watch, watchman_watch_del and
\* watchman_watch_list: the array, then a newline whether or not the array
\* went out; the operation returns at once when it did not.
send_simple_cmd ==
    /\ StreamReady
    /\ \E args \in SimpleCmds, dumped \in BOOLEAN, partial \in BOOLEAN :
           LET s == watchman_send_simple_cmd(NoError, args, dumped)
               id == log.ncmd + 1
               toks == json_dumpf(s.line.cmd, id, dumped, partial) \o fputc
           IN  /\ dumped => ~partial
               /\ out' = out \o toks
               /\ sent' = s.line
               /\ IF s.result = 0
                  THEN /\ pc' = [at |-> "sent", args |-> args, query |-> JsonNull]
                       /\ log' = [log EXCEPT !.ops = @ + 1, !.ncmd = id,
                                             !.wrote = toks, !.read = FALSE]
                       /\ UNCHANGED <<op, error>>
                  ELSE /\ op' = [name |-> args[1], ret |-> 1]
                       /\ error' = s.error
                       /\ log' = [log EXCEPT !.ops = @ + 1, !.wrote = toks,
                                             !.read = FALSE]
                       /\ UNCHANGED pc
    /\ UNCHANGED <<inp, conn, wire, list, qres, heap, exprVars>>

\* The write of watchman_do_query: the query, then a newline only when the
\* query went out; the operation returns at once when it did not.
send_query ==
    /\ StreamReady
    /\ \E fs_path \in Paths, e \in StaticLeaves, fields \in FieldMasks,
          dumped \in BOOLEAN, partial \in BOOLEAN :
           LET query == query_json(fs_path, e, fields)
               id == log.ncmd + 1
               toks == json_dumpf(query, id, dumped, partial)
                           \o (IF dumped THEN fputc ELSE <<>>)
           IN  /\ dumped => ~partial
               /\ out' = out \o toks
               /\ IF dumped
                  THEN /\ sent' = [cmd |-> query, nl |-> TRUE]
                       /\ pc' = [at |-> "sent", args |-> <<"query", fs_path>>,
                                 query |-> query]
                       /\ log' = [log EXCEPT !.ops = @ + 1, !.ncmd = id,
                                             !.wrote = toks, !.read = FALSE]
                       /\ UNCHANGED <<op, error>>
                  ELSE \E r \in {watchman_do_query(query, FALSE, NoWire, FALSE)} :
                           /\ sent' = r.line
                           /\ op' = [name |-> "query", ret |-> 1]
                           /\ error' = r.error
                           /\ log' = [log EXCEPT !.ops = @ + 1, !.wrote = toks,
                                                 !.read = FALSE]
                           /\ UNCHANGED pc
    /\ UNCHANGED <<inp, conn, wire, list, qres, heap, exprVars>>

\* watchman_read, its first half: json_loadf, which blocks until the stream
\* holds something after white space.
load_reply ==
    /\ pc.at = "sent"
    /\ SkipSpace(inp) # <<>>
    /\ \E r \in json_loadf(inp) :
           /\ wire' = [val |-> r.val, nl |-> FALSE]
           /\ inp' = r.rest
           /\ log' = [log EXCEPT !.before = inp, !.got = r.id, !.loads = @ + 1]
    /\ pc' = [pc EXCEPT !.at = "loaded"]
    /\ UNCHANGED <<out, conn, op, error, sent, list, qres, heap, exprVars>>

\* watchman_read, its second half: fgetc, which blocks until the stream holds
\* a byte; then the operation handles what watchman_read returned, and
\* returns to its caller.
end_reply ==
    /\ pc.at = "loaded"
    /\ inp # <<>>
    /\ LET c == fgetc(inp)
           w == [val |-> wire.val, nl |-> c.c = "nl"]
           fn == pc.args[1]
       IN  /\ inp' = c.rest
           /\ wire' = w
           /\ \/ /\ fn \in {"watch", "watch-del"}
                 /\ \E r \in {simple_op(fn, pc.args[2], TRUE, w)} :
                        /\ op' = [name |-> fn, ret |-> r.ret]
                        /\ error' = r.error
                 /\ UNCHANGED <<list, qres, heap>>
              \/ /\ fn = "watch-list"
                 /\ \E r \in {watch_list(TRUE, w)} :
                        /\ op' = [name |-> fn, ret |-> IF r.res = NullList THEN 1 ELSE 0]
                        /\ list' = r.res
                        /\ error' = r.error
                 /\ UNCHANGED <<qres, heap>>
              \/ /\ fn = "query"
                 /\ \E calloc0 \in BOOLEAN :
                        \E r \in {watchman_do_query(pc.query, TRUE, w, calloc0)} :
                            /\ op' = [name |-> fn,
                                      ret |-> IF r.result = NullResult THEN 1 ELSE 0]
                            /\ qres' = r.result
                            /\ heap' = r.heap
                            /\ error' = r.error
                 /\ UNCHANGED list
    /\ pc' = IdlePc
    /\ log' = [log EXCEPT !.read = TRUE]
    /\ UNCHANGED <<out, conn, sent, exprVars>>

NextStream ==
    \/ send_simple_cmd
    \/ send_query
    \/ Daemon
    \/ load_reply
    \/ end_reply
    \/ Release

SpecStream == Init /\ [][NextStream]_vars

(***************************************************************************)
(* Properties of the traffic on the stream.                                *)
(***************************************************************************)
\* The operation that last returned went through watchman_read.
ReadReturned == op.name \in Fallible /\ pc.at = "idle" /\ log.read

\* The operation in progress, or the one that last returned after a read,
\* wrote its command and one newline, and nothing else, before it read.
WroteThenRead ==
    /\ log.loads <= log.ncmd
    /\ pc.at = "sent" => log.loads = log.ncmd - 1
    /\ (pc.at \in {"sent", "loaded"} \/ ReadReturned) =>
           /\ sent.cmd # JsonNull
           /\ sent.nl
           /\ log.wrote = <<ValTok(sent.cmd, log.ncmd), NlTok>>
    /\ (pc.at = "loaded" \/ ReadReturned) => log.loads = log.ncmd

\* s is what is left of the stream b once its first value, the white space
\* before it and n tokens after it are taken off.
LeftAfterValue(b, s, n) ==
    \E i \in 1 .. Len(b) :
        /\ \A j \in 1 .. i - 1 : b[j].t = "nl"
        /\ b[i].t = "val"
        /\ b[i].v = wire.val
        /\ i + n <= Len(b)
        /\ s = SubSeq(b, i + n + 1, Len(b))

\* json_loadf that parsed a value took the white space before it and the
\* value, and stopped; a receive that succeeded took the one newline after the
\* value as well, and nothing after that.
ExactlyOneLine ==
    /\ (pc.at = "loaded" /\ wire.val # JsonNull) =>
           LeftAfterValue(log.before, inp, 0)
    /\ (ReadReturned /\ wire.val # JsonNull /\ wire.nl) =>
           /\ LeftAfterValue(log.before, inp, 1)
           /\ log.before[Len(log.before) - Len(inp)].t = "nl"

\* Every command so far was answered with one array or object and a newline,
\* and nothing else was sent.
AllWellFormed == log.badat = 0 /\ ~log.stray

\* C11: an operation writes its command line (one value, one newline) before
\* it reads; a receive that succeeds consumes one value and the newline after
\* it and nothing more; while the daemon answers each command with one
\* well-formed value and a newline, the k-th operation that reads is handed the
\* reply to its own, k-th, command; a reply that cannot be parsed or lacks its
\* newline gives an error and no value.
C11_RepliesInStep ==
    /\ WroteThenRead
    /\ ExactlyOneLine
    /\ (pc.at = "loaded" /\ AllWellFormed) =>
           /\ wire.val = log.reply.v
           /\ inp = <<NlTok>>
    /\ (ReadReturned /\ AllWellFormed) =>
           /\ log.got = log.ncmd
           /\ log.reply.id = log.ncmd
           /\ wire = [val |-> log.reply.v, nl |-> TRUE]
           /\ log.before = <<ValTok(log.reply.v, log.ncmd), NlTok>>
           /\ inp = <<>>
    /\ (ReadReturned /\ (wire.val = JsonNull \/ ~wire.nl)) =>
           ErrorSet /\ ~ReturnedValue
    /\ (ReadReturned /\ ~log.stray /\ log.badat = log.ncmd) =>
           ErrorSet /\ ~ReturnedValue

C11_Witness ==
    /\ ReadReturned
    /\ AllWellFormed
    /\ log.ncmd = MaxOps
    /\ log.ops = MaxOps
    /\ op.name = "watch-list"
    /\ wire = [val |-> ListReply, nl |-> TRUE]
    /\ list = [nr |-> 1, roots |-> <<"/r">>]
    /\ ~ErrorSet

====
